---- MODULE Spec2Model ----
(***************************************************************************)
(* A model of app.py: the three generators (generate_openapi,              *)
(* scaffold_fastapi_app, scaffold_client_demo), the archive packager       *)
(* make_zip and the heuristic scorer evaluate_api_quality.                 *)
(*                                                                         *)
(* Representation of Python values                                         *)
(*   - an endpoint is a record with the fields path, method, func_name and *)
(*     optionally summary; path, func_name and summary are strings, method *)
(*     is a sequence of one-character strings so that lower() and upper()  *)
(*     act on its letters;                                                 *)
(*   - a dict is a sequence of [key, value] records in insertion order;    *)
(*   - a generated text is the sequence of its lines (the text split at    *)
(*     every "\n");                                                        *)
(*   - a str handed to zipfile is a sequence of tokens, a token being a    *)
(*     run of ASCII text or one code point (NUL or non-ASCII);             *)
(*     bytes are sequences of tokens of the same two shapes.               *)
(***************************************************************************)
EXTENDS Integers, Sequences, FiniteSets, TLC

VARIABLES
    api_name,       \* GenerationRequest.api_name
    version,        \* GenerationRequest.version
    desc,           \* GenerationRequest.description
    endpoints,      \* GenerationRequest.endpoints, a sequence of endpoint records
    now,            \* the wall clock read by datetime.utcnow()
    generated,      \* TRUE once the Generate handler has run
    openapi_yaml,   \* result of generate_openapi
    fastapi_code,   \* result of scaffold_fastapi_app
    client_code,    \* result of scaffold_client_demo
    files,          \* the mapping handed to make_zip
    zipbuf,         \* the archive built by make_zip: its entries, in order
    zipped,         \* TRUE once make_zip has run
    scored,         \* TRUE once evaluate_api_quality has run
    quality_score   \* result of evaluate_api_quality

vars == <<api_name, version, desc, endpoints, now, generated, openapi_yaml,
          fastapi_code, client_code, files, zipbuf, zipped, scored, quality_score>>

(***************************************************************************)
(* Bounds of the model.                                                    *)
(***************************************************************************)
MaxLen == 3      \* longest endpoint list drawn
MaxClock == 1    \* the clock runs over 0..MaxClock
MaxFiles == 2    \* most keys in a files mapping drawn for make_zip

(***************************************************************************)
(* Generic helpers.                                                        *)
(***************************************************************************)
SeqsUpTo(S, n) == UNION {[1..k -> S] : k \in 0..n}

Range(s) == {s[i] : i \in 1..Len(s)}

RECURSIVE Flatten(_)
Flatten(ss) == IF ss = <<>> THEN <<>> ELSE Head(ss) \o Flatten(Tail(ss))

\* the Python str spelled by a sequence of one-character strings
RECURSIVE Str(_)
Str(cs) == IF cs = <<>> THEN "" ELSE Head(cs) \o Str(Tail(cs))

(***************************************************************************)
(* str.lower() and str.upper() on ASCII letters.                           *)
(***************************************************************************)
UpperLetters == <<"A","B","C","D","E","F","G","H","I","J","K","L","M",
                  "N","O","P","Q","R","S","T","U","V","W","X","Y","Z">>
LowerLetters == <<"a","b","c","d","e","f","g","h","i","j","k","l","m",
                  "n","o","p","q","r","s","t","u","v","w","x","y","z">>

IndexIn(letters, c) == CHOOSE i \in 1..Len(letters) : letters[i] = c

LowerOf == [c \in Range(UpperLetters) |-> LowerLetters[IndexIn(UpperLetters, c)]]

UpperOf == [c \in Range(LowerLetters) |-> UpperLetters[IndexIn(LowerLetters, c)]]

lower_char(c) == IF c \in DOMAIN LowerOf THEN LowerOf[c] ELSE c

upper_char(c) == IF c \in DOMAIN UpperOf THEN UpperOf[c] ELSE c

lower(s) == [i \in 1..Len(s) |-> lower_char(s[i])]

upper(s) == [i \in 1..Len(s) |-> upper_char(s[i])]

(***************************************************************************)
(* dict operations on insertion-ordered mappings.                          *)
(***************************************************************************)
DictKeys(d) == {d[i].key : i \in 1..Len(d)}

DictGet(d, k) == d[CHOOSE i \in 1..Len(d) : d[i].key = k].value

\* d[k] = v: an existing key keeps its position, a new key is appended
DictSet(d, k, v) ==
    IF k \in DictKeys(d)
    THEN [i \in 1..Len(d) |-> IF d[i].key = k THEN [key |-> k, value |-> v] ELSE d[i]]
    ELSE Append(d, [key |-> k, value |-> v])

\* d.setdefault(k, {})
DictSetDefault(d, k) == IF k \in DictKeys(d) THEN d ELSE Append(d, [key |-> k, value |-> <<>>])

\* ep.get('summary', '')
summary_of(ep) == IF "summary" \in DOMAIN ep THEN ep.summary ELSE ""

(***************************************************************************)
(* generate_openapi: the paths mapping built by the loop, then the         *)
(* document dumped by yaml.safe_dump(spec, sort_keys=False) in block       *)
(* style, one record per line: its nesting depth, its key and, for a       *)
(* scalar, its value.                                                      *)
(***************************************************************************)
operation_entry(ep) ==
    [summary |-> summary_of(ep), responses |-> "200: description: Success"]

\* build_paths storing the method as the endpoint spells it
RECURSIVE build_paths_keep_case(_, _)
build_paths_keep_case(paths, eps) ==
    IF eps = <<>> THEN paths
    ELSE LET ep == Head(eps)
             withPath == DictSetDefault(paths, ep.path)
             item == DictSet(DictGet(withPath, ep.path), Str(ep.method), operation_entry(ep))
         IN  build_paths_keep_case(DictSet(withPath, ep.path, item), Tail(eps))

\* build_paths keeping the operation already stored for a (path, method)
RECURSIVE build_paths_first_wins(_, _)
build_paths_first_wins(paths, eps) ==
    IF eps = <<>> THEN paths
    ELSE LET ep == Head(eps)
             method == Str(lower(ep.method))
             withPath == DictSetDefault(paths, ep.path)
             old == DictGet(withPath, ep.path)
             item == IF method \in DictKeys(old) THEN old
                     ELSE DictSet(old, method, operation_entry(ep))
         IN  build_paths_first_wins(DictSet(withPath, ep.path, item), Tail(eps))

RECURSIVE build_paths(_, _)
build_paths(paths, eps) ==
    IF eps = <<>> THEN paths
    ELSE LET ep == Head(eps)
             path == ep.path
             method == Str(lower(ep.method))
             withPath == DictSetDefault(paths, path)
             item == DictSet(DictGet(withPath, path), method, operation_entry(ep))
         IN  build_paths(DictSet(withPath, path, item), Tail(eps))

MapLine(depth, key) == [depth |-> depth, key |-> key, scalar |-> FALSE, value |-> ""]
ScalarLine(depth, key, value) == [depth |-> depth, key |-> key, scalar |-> TRUE, value |-> value]

dump_operation(op) ==
    << MapLine(2, op.key),
       ScalarLine(3, "summary", op.value.summary),
       MapLine(3, "responses"),
       MapLine(4, "200"),
       ScalarLine(5, "description", "Success") >>

dump_path_item(item) ==
    <<MapLine(1, item.key)>>
    \o Flatten([i \in 1..Len(item.value) |-> dump_operation(item.value[i])])

safe_dump(name, ver, description, paths) ==
    << ScalarLine(0, "openapi", "3.0.3"),
       MapLine(0, "info"),
       ScalarLine(1, "title", name),
       ScalarLine(1, "version", ver),
       ScalarLine(1, "description", description),
       MapLine(0, "servers"),
       ScalarLine(0, "- url", "{{baseUrl}}") >>
    \o (IF paths = <<>>
        THEN <<ScalarLine(0, "paths", "{}")>>
        ELSE <<MapLine(0, "paths")>>
             \o Flatten([i \in 1..Len(paths) |-> dump_path_item(paths[i])]))

generate_openapi(name, ver, description, eps) ==
    safe_dump(name, ver, description, build_paths(<<>>, eps))

(***************************************************************************)
(* scaffold_fastapi_app: the Jinja2 template rendered with title, version, *)
(* endpoints and timestamp.  Jinja2 looks ep.summary up by attribute, then *)
(* by item, and renders a missing item (Undefined) as the empty string;    *)
(* Template() does no autoescaping, and drops the template's final         *)
(* newline.                                                                *)
(***************************************************************************)
\* datetime.isoformat() of an instant t whole seconds after the model's epoch
isoformat(t) == "1970-01-01T00:00:0" \o ToString(t)

\* datetime.utcnow()
utcnow == now

jinja_summary(ep) == IF "summary" \in DOMAIN ep THEN ep.summary ELSE ""

health_return(timestamp) ==
    "    return {\"status\": \"ok\", \"timestamp\": \"" \o timestamp \o "\"}"

template_head(title, ver, timestamp) ==
    << "",
       "from fastapi import FastAPI",
       "",
       "app = FastAPI(title=\"" \o title \o "\", version=\"" \o ver \o "\")",
       "",
       "@app.get(\"/health\")",
       "async def health():",
       health_return(timestamp),
       "",
       "" >>

\* the loop body calling the method as the endpoint spells it
template_loop_body_keep_case(ep) ==
    << "@app." \o Str(ep.method) \o "(\"" \o ep.path \o "\")",
       "async def " \o ep.func_name \o "():",
       "    return {\"demo\": \"" \o jinja_summary(ep) \o "\"}",
       "" >>

\* the loop body stamping every handler with the instant of the call
template_loop_body_stamped(ep) ==
    << "@app." \o Str(lower(ep.method)) \o "(\"" \o ep.path \o "\")",
       "async def " \o ep.func_name \o "():",
       "    return {\"demo\": \"" \o jinja_summary(ep) \o "\", \"timestamp\": \""
           \o isoformat(utcnow) \o "\"}",
       "" >>

\* one pass of the {% for ep in endpoints %} body: "\n@app...\n...\n...\n"
template_loop_body(ep) ==
    << "@app." \o Str(lower(ep.method)) \o "(\"" \o ep.path \o "\")",
       "async def " \o ep.func_name \o "():",
       "    return {\"demo\": \"" \o jinja_summary(ep) \o "\"}",
       "" >>

render(title, ver, eps, timestamp) ==
    template_head(title, ver, timestamp)
    \o Flatten([i \in 1..Len(eps) |-> template_loop_body(eps[i])])

scaffold_fastapi_app(name, ver, eps) == render(name, ver, eps, isoformat(utcnow))

(***************************************************************************)
(* scaffold_client_demo.  The replacement field { { 'BASE_URL' } } of the  *)
(* f-string holds the expression { 'BASE_URL' }, a set display with the    *)
(* single element 'BASE_URL'; it is formatted with str(), which for a set  *)
(* is "{" + repr(element) + "}".                                           *)
(***************************************************************************)
py_repr(s) == "'" \o s \o "'"

py_str_of_singleton_set(element) == "{" \o py_repr(element) \o "}"

client_preamble == << "import requests", "BASE_URL = \"http://localhost:8000\"", "" >>

client_call_line(ep) ==
    "resp = requests." \o Str(lower(ep.method)) \o "(f'"
        \o py_str_of_singleton_set("BASE_URL") \o ep.path \o "')"

client_print_line == "print(resp.status_code, resp.text)"

scaffold_client_demo(eps) ==
    client_preamble
    \o Flatten([i \in 1..Len(eps) |-> <<client_call_line(eps[i]), client_print_line>>])

(***************************************************************************)
(* evaluate_api_quality.                                                   *)
(***************************************************************************)
\* membership tested on the first element alone
py_in_first(x, list) == Len(list) > 0 /\ list[1] = x

py_in(x, list) == \E i \in 1..Len(list) : list[i] = x

\* the clarity count taking names of 3 characters for clear
clarity_count_from_3(eps) == Cardinality({i \in 1..Len(eps) : Len(eps[i].func_name) >= 3})

clarity_count_of(eps) == Cardinality({i \in 1..Len(eps) : Len(eps[i].func_name) > 3})

\* the scorer with the second CRUD test as an if of its own, not an elif
evaluate_api_quality_double_crud(eps) ==
    IF eps = <<>> THEN 0
    ELSE LET s1 == IF Len(eps) >= 3 THEN 5
                   ELSE IF Len(eps) = 2 THEN 3
                   ELSE 1
             methods == [i \in 1..Len(eps) |-> Str(upper(eps[i].method))]
             s2a == IF py_in("GET", methods) /\ py_in("POST", methods) THEN s1 + 3 ELSE s1
             s2 == IF py_in("GET", methods) \/ py_in("POST", methods) THEN s2a + 1 ELSE s2a
             clarity_count == Cardinality({i \in 1..Len(eps) : Len(eps[i].func_name) > 3})
             s3 == IF clarity_count >= Len(eps) THEN s2 + 2
                   ELSE IF clarity_count > 0 THEN s2 + 1
                   ELSE s2
         IN  s3

evaluate_api_quality(eps) ==
    IF eps = <<>> THEN 0
    ELSE LET s1 == IF Len(eps) >= 3 THEN 5
                   ELSE IF Len(eps) = 2 THEN 3
                   ELSE 1
             methods == [i \in 1..Len(eps) |-> Str(upper(eps[i].method))]
             s2 == IF py_in("GET", methods) /\ py_in("POST", methods) THEN s1 + 3
                   ELSE IF py_in("GET", methods) \/ py_in("POST", methods) THEN s1 + 1
                   ELSE s1
             clarity_count == clarity_count_of(eps)
             s3 == IF clarity_count >= Len(eps) THEN s2 + 2
                   ELSE IF clarity_count > 0 THEN s2 + 1
                   ELSE s2
         IN  s3

(***************************************************************************)
(* make_zip.  A str is a sequence of tokens: Ascii(t), a run t of ASCII    *)
(* text without NUL, or CodePoint(c), the single character chr(c).         *)
(* ZipFile.writestr builds ZipInfo(filename, date_time=localtime), which   *)
(* cuts the name at its first NUL character, encodes a str content as      *)
(* UTF-8 and stores it deflated; entries are appended in call order.       *)
(***************************************************************************)
Ascii(t) == [kind |-> "ascii", text |-> t]
CodePoint(c) == [kind |-> "cp", code |-> c]
Byte(b) == [kind |-> "byte", value |-> b]

IsNul(tok) == tok.kind = "cp" /\ tok.code = 0

\* str.find(chr(0)): the index of the first NUL, 0 when there is none
find_nul(name) ==
    IF \E i \in 1..Len(name) : IsNul(name[i])
    THEN CHOOSE i \in 1..Len(name) :
            IsNul(name[i]) /\ \A j \in 1..(i - 1) : ~IsNul(name[j])
    ELSE 0

\* ZipInfo.__init__: the name ends at the first NUL (os.sep is "/", so no
\* separator is rewritten)
zipinfo_filename(name) ==
    LET null_byte == find_nul(name)
    IN  IF null_byte > 0 THEN SubSeq(name, 1, null_byte - 1) ELSE name

\* str.encode("utf-8") of one token
utf8_token(tok) ==
    IF tok.kind = "ascii" THEN <<tok>>
    ELSE IF tok.code < 128 THEN <<Byte(tok.code)>>
    ELSE IF tok.code < 2048
         THEN <<Byte(192 + (tok.code \div 64)), Byte(128 + (tok.code % 64))>>
    ELSE <<Byte(224 + (tok.code \div 4096)),
           Byte(128 + ((tok.code \div 64) % 64)),
           Byte(128 + (tok.code % 64))>>

utf8_encode(str) == Flatten([i \in 1..Len(str) |-> utf8_token(str[i])])

\* ZIP_DEFLATED storage of an entry's bytes
deflate(bs) == [compress_type |-> "ZIP_DEFLATED", raw |-> bs]

writestr(fname, content) ==
    [filename |-> zipinfo_filename(fname),
     date_time |-> now,
     data |-> deflate(utf8_encode(content))]

\* make_zip writing the entries last key first
make_zip_reversed(mapping) ==
    [i \in 1..Len(mapping) |->
        writestr(mapping[Len(mapping) + 1 - i].key, mapping[Len(mapping) + 1 - i].value)]

make_zip(mapping) == [i \in 1..Len(mapping) |-> writestr(mapping[i].key, mapping[i].value)]

(***************************************************************************)
(* The Generate handler's bundle.                                          *)
(***************************************************************************)
\* a str whose text is ASCII, held as one run
Text(t) == <<Ascii(t)>>

Entry(k, v) == [key |-> k, value |-> v]

readme(name, description) == <<"# " \o name, "", description, "">>

\* the bundle without its README
bundle_without_readme(openapi, fastapi, client, name, description) ==
    << Entry(Text("openapi.yaml"), Text(openapi)),
       Entry(Text("backend/main.py"), Text(fastapi)),
       Entry(Text("client_demo.py"), Text(client)) >>

bundle(openapi, fastapi, client, name, description) ==
    << Entry(Text("openapi.yaml"), Text(openapi)),
       Entry(Text("backend/main.py"), Text(fastapi)),
       Entry(Text("client_demo.py"), Text(client)),
       Entry(Text("README.md"), Text(readme(name, description))) >>

(***************************************************************************)
(* Inputs.  The endpoint pool holds the records of demo_apis and of the    *)
(* custom branch's kind, and variations on them: methods that differ only  *)
(* in letter case, a record without summary, names of at most 3 letters.   *)
(***************************************************************************)
GET == <<"G","E","T">>
POST == <<"P","O","S","T">>

EndpointPool ==
    { [path |-> "/todos", method |-> GET, summary |-> "List todos", func_name |-> "list_todos"],
      [path |-> "/todos", method |-> POST, summary |-> "Create todo", func_name |-> "create_todo"],
      [path |-> "/add", method |-> GET, summary |-> "Add two numbers", func_name |-> "add"],
      [path |-> "/multiply", method |-> GET, summary |-> "Multiply two numbers",
       func_name |-> "multiply"],
      [path |-> "/todos", method |-> <<"g","e","t">>, summary |-> "Fetch todos",
       func_name |-> "get_todos"],
      [path |-> "/todos", method |-> <<"P","o","s","t">>, func_name |-> "new"],
      [path |-> "/todos", method |-> <<"P","U","T">>, summary |-> "Replace todos",
       func_name |-> "put"],
      [path |-> "/add", method |-> <<"d","e","l","e","t","e">>, summary |-> "",
       func_name |-> "remove_add"] }

Requests ==
    { [api_name |-> "Todo API", version |-> "0.1.0",
       desc |-> "Auto-generated Todo API using Agentic AI API Engineer."],
      [api_name |-> "Custom API", version |-> "0.1.0",
       desc |-> "Generated from natural language requirement."] }

ZipKeys ==
    { Text("a.txt"),
      Text("backend/main.py"),
      <<Ascii("a"), CodePoint(0), Ascii("b.txt")>>,
      <<Ascii("caf"), CodePoint(233), Ascii(".txt")>> }

ZipContents ==
    { <<>>,
      Text("hello"),
      <<Ascii("caf"), CodePoint(233), CodePoint(8364)>> }

\* a dict has no two equal keys
ZipMappings ==
    { m \in SeqsUpTo({Entry(k, v) : k \in ZipKeys, v \in ZipContents}, MaxFiles) :
        \A i, j \in 1..Len(m) : i # j => m[i].key # m[j].key }

(***************************************************************************)
(* State machine of the application: a request is chosen, then the         *)
(* Generate handler and the scorer run on it, any number of times, while   *)
(* the clock advances.                                                     *)
(***************************************************************************)
Idle ==
    /\ now = 0
    /\ generated = FALSE
    /\ openapi_yaml = <<>>
    /\ fastapi_code = <<>>
    /\ client_code = <<>>
    /\ zipbuf = <<>>
    /\ zipped = FALSE
    /\ scored = FALSE
    /\ quality_score = 0

Init ==
    /\ \E r \in Requests :
        /\ api_name = r.api_name
        /\ version = r.version
        /\ desc = r.desc
    /\ endpoints \in SeqsUpTo(EndpointPool, MaxLen)
    /\ files = <<>>
    /\ Idle

\* the "Generate API from scratch" handler
Generate ==
    /\ generated' = TRUE
    /\ openapi_yaml' = generate_openapi(api_name, version, desc, endpoints)
    /\ fastapi_code' = scaffold_fastapi_app(api_name, version, endpoints)
    /\ client_code' = scaffold_client_demo(endpoints)
    /\ files' = bundle(openapi_yaml', fastapi_code', client_code', api_name, desc)
    /\ zipbuf' = make_zip(files')
    /\ zipped' = TRUE
    /\ UNCHANGED <<api_name, version, desc, endpoints, now, scored, quality_score>>

\* a call of evaluate_api_quality on the request's endpoints
Evaluate ==
    /\ scored' = TRUE
    /\ quality_score' = evaluate_api_quality(endpoints)
    /\ UNCHANGED <<api_name, version, desc, endpoints, now, generated, openapi_yaml,
                   fastapi_code, client_code, files, zipbuf, zipped>>

\* time passes between two user actions
Tick ==
    /\ now < MaxClock
    /\ now' = now + 1
    /\ UNCHANGED <<api_name, version, desc, endpoints, generated, openapi_yaml,
                   fastapi_code, client_code, files, zipbuf, zipped, scored, quality_score>>

Next == Generate \/ Evaluate \/ Tick

Spec == Init /\ [][Next]_vars

(***************************************************************************)
(* make_zip on its own: any files mapping is drawn and archived.           *)
(***************************************************************************)
InitZip ==
    /\ api_name = ""
    /\ version = ""
    /\ desc = ""
    /\ endpoints = <<>>
    /\ files \in ZipMappings
    /\ Idle

MakeZip ==
    /\ zipbuf' = make_zip(files)
    /\ zipped' = TRUE
    /\ UNCHANGED <<api_name, version, desc, endpoints, now, generated, openapi_yaml,
                   fastapi_code, client_code, files, scored, quality_score>>

NextZip == MakeZip \/ Tick

SpecZip == InitZip /\ [][NextZip]_vars

(***************************************************************************)
(* Reading the dumped document back: the operations under "paths", each    *)
(* with the path and the method whose blocks enclose its summary line.     *)
(***************************************************************************)
PathsLine(doc) == CHOOSE i \in 1..Len(doc) : doc[i].depth = 0 /\ doc[i].key = "paths"

Enclosing(doc, i, depth) ==
    doc[CHOOSE j \in 1..(i - 1) :
            /\ doc[j].depth = depth
            /\ \A k \in (j + 1)..(i - 1) : doc[k].depth # depth].key

SummaryLines(doc) ==
    {i \in (PathsLine(doc) + 1)..Len(doc) : doc[i].depth = 3 /\ doc[i].key = "summary"}

OperationAt(doc, i) ==
    [path |-> Enclosing(doc, i, 1), method |-> Enclosing(doc, i, 2), summary |-> doc[i].value]

PairOf(ep) == [path |-> ep.path, method |-> Str(lower(ep.method))]

InputPairs == {PairOf(endpoints[i]) : i \in 1..Len(endpoints)}

SummaryOrEmpty(ep) == IF "summary" \in DOMAIN ep THEN ep.summary ELSE ""

\* C1: the paths map of the generated document holds one operation for each
\* distinct (path, lowercase method) pair of the input and no other, and
\* each operation's summary is the summary of an input endpoint of that
\* pair, the empty string when that endpoint has none.
C1_PathsAreInputPairs ==
    generated =>
        LET ops == SummaryLines(openapi_yaml)
            pair(i) == [path |-> OperationAt(openapi_yaml, i).path,
                        method |-> OperationAt(openapi_yaml, i).method]
        IN  /\ {pair(i) : i \in ops} = InputPairs
            /\ Cardinality(ops) = Cardinality(InputPairs)
            /\ \A i \in ops :
                 \E k \in 1..Len(endpoints) :
                    /\ PairOf(endpoints[k]) = pair(i)
                    /\ OperationAt(openapi_yaml, i).summary = SummaryOrEmpty(endpoints[k])

C1_Witness ==
    /\ generated
    /\ Cardinality(InputPairs) >= 2
    /\ Cardinality(InputPairs) < Len(endpoints)
    /\ \E k \in 1..Len(endpoints) :
         /\ "summary" \notin DOMAIN endpoints[k]
         /\ \E i \in SummaryLines(openapi_yaml) :
              /\ OperationAt(openapi_yaml, i).path = endpoints[k].path
              /\ OperationAt(openapi_yaml, i).summary = ""

\* C4: when several endpoints share a path and a method up to letter case,
\* the paths map holds a single operation for the pair and its summary is
\* that of the last such endpoint in input order.
C4_LastWriteWins ==
    generated =>
        \A k \in 1..Len(endpoints) :
            LET same == {j \in 1..Len(endpoints) : PairOf(endpoints[j]) = PairOf(endpoints[k])}
                last == CHOOSE j \in same : \A h \in same : h <= j
                hits == {i \in SummaryLines(openapi_yaml) :
                            /\ OperationAt(openapi_yaml, i).path = endpoints[k].path
                            /\ OperationAt(openapi_yaml, i).method = Str(lower(endpoints[k].method))}
            IN  /\ Cardinality(hits) = 1
                /\ \A i \in hits :
                     OperationAt(openapi_yaml, i).summary = SummaryOrEmpty(endpoints[last])

C4_Witness ==
    /\ generated
    /\ \E j, k \in 1..Len(endpoints) :
         /\ j < k
         /\ endpoints[j].method # endpoints[k].method
         /\ PairOf(endpoints[j]) = PairOf(endpoints[k])
         /\ SummaryOrEmpty(endpoints[j]) # SummaryOrEmpty(endpoints[k])
         /\ \A h \in (k + 1)..Len(endpoints) : PairOf(endpoints[h]) # PairOf(endpoints[k])
         /\ \E i \in SummaryLines(openapi_yaml) :
              OperationAt(openapi_yaml, i).summary = SummaryOrEmpty(endpoints[k])

(***************************************************************************)
(* The scorer.                                                             *)
(***************************************************************************)
MethodsUpper == {Str(upper(endpoints[i].method)) : i \in 1..Len(endpoints)}

LongNamed == {i \in 1..Len(endpoints) : Len(endpoints[i].func_name) > 3}

Breadth == IF Len(endpoints) >= 3 THEN 5 ELSE IF Len(endpoints) = 2 THEN 3 ELSE 1

Crud ==
    IF {"GET", "POST"} \subseteq MethodsUpper THEN 3
    ELSE IF {"GET", "POST"} \cap MethodsUpper # {} THEN 1
    ELSE 0

Clarity ==
    IF LongNamed = 1..Len(endpoints) THEN 2
    ELSE IF LongNamed # {} THEN 1
    ELSE 0

\* C2: the score is an integer between 0 and 10; 10 is reached (C2_Witness)
\* and nothing above it is.
C2_ScoreInRange == scored => quality_score \in 0..10

C2_Witness == scored /\ quality_score = 10 /\ Breadth = 5 /\ Crud = 3 /\ Clarity = 2

\* C3: the score is 0 for the empty list and otherwise the sum of the
\* breadth, CRUD and clarity parts.
C3_ScoreIsSumOfParts ==
    scored =>
        quality_score = IF endpoints = <<>> THEN 0 ELSE Breadth + Crud + Clarity

C3_Witness ==
    /\ scored
    /\ Len(endpoints) = 2
    /\ Crud = 1
    /\ Clarity = 1
    /\ quality_score = 5
    /\ \E i \in 1..Len(endpoints) : Len(endpoints[i].func_name) = 3
    /\ \E i \in 1..Len(endpoints) : endpoints[i].method \notin {GET, POST}

PermuteSeq(s, p) == [i \in 1..Len(s) |-> s[p[i]]]

\* C10: the score of any reordering of the endpoint list equals the score of
\* the list.
C10_ScoreIgnoresOrder ==
    scored =>
        \A p \in Permutations(1..Len(endpoints)) :
            evaluate_api_quality(PermuteSeq(endpoints, p)) = quality_score

C10_Witness ==
    /\ scored
    /\ Len(endpoints) >= 3
    /\ Crud = 1
    /\ Clarity = 1
    /\ endpoints[1].method \notin {GET, POST}
    /\ Len(endpoints[1].func_name) <= 3
    /\ \E i \in 2..Len(endpoints) : Len(endpoints[i].func_name) > 3

(***************************************************************************)
(* The server scaffold, read as text: a handler declaration is a decorator *)
(* line @app.<method>("<path>") followed by an async def line.             *)
(***************************************************************************)
MethodNames ==
    {"get"} \cup {Str(lower(e.method)) : e \in EndpointPool}
            \cup {Str(e.method) : e \in EndpointPool}

PathNames == {"/health"} \cup {e.path : e \in EndpointPool}

FuncNames == {"health"} \cup {e.func_name : e \in EndpointPool}

DecoratorLine(m, path) == "@app." \o m \o "(\"" \o path \o "\")"

DefLine(f) == "async def " \o f \o "():"

DemoReturnLine(text) == "    return {\"demo\": \"" \o text \o "\"}"

DecoratorLines == {DecoratorLine(m, path) : m \in MethodNames, path \in PathNames}

DefLines == {DefLine(f) : f \in FuncNames}

IsDecorator(line) == line \in DecoratorLines

IsDef(line) == line \in DefLines

Handlers(code) == {i \in 1..(Len(code) - 2) : IsDecorator(code[i]) /\ IsDef(code[i + 1])}

\* the k-th smallest element of a set of numbers
Nth(S, k) == CHOOSE x \in S : Cardinality({y \in S : y < x}) = k - 1

\* C5: the server text declares len(endpoints) + 1 handlers: the health
\* handler on GET /health first, then one per endpoint in input order, on
\* its lowercase method and path, named by its func_name and returning
\* {"demo": summary}; equal endpoints are declared once each time they occur.
C5_OneHandlerPerEndpoint ==
    generated =>
        LET hs == Handlers(fastapi_code)
        IN  /\ Cardinality(hs) = Len(endpoints) + 1
            /\ Cardinality({i \in 1..Len(fastapi_code) : IsDecorator(fastapi_code[i])})
                 = Len(endpoints) + 1
            /\ fastapi_code[Nth(hs, 1)] = DecoratorLine("get", "/health")
            /\ fastapi_code[Nth(hs, 1) + 1] = DefLine("health")
            /\ \A k \in 1..Len(endpoints) :
                 LET at == Nth(hs, k + 1)
                     ep == endpoints[k]
                 IN  /\ fastapi_code[at] = DecoratorLine(Str(lower(ep.method)), ep.path)
                     /\ fastapi_code[at + 1] = DefLine(ep.func_name)
                     /\ fastapi_code[at + 2] = DemoReturnLine(SummaryOrEmpty(ep))

C5_Witness ==
    /\ generated
    /\ Len(endpoints) >= 3
    /\ endpoints[1] = endpoints[3]
    /\ endpoints[1] # endpoints[2]
    /\ endpoints[2].method \notin {GET, POST}
    /\ Cardinality(Handlers(fastapi_code)) = Len(endpoints) + 1

(***************************************************************************)
(* The client script, read as text.  A request line is run by Python: its  *)
(* f-string field names the variable BASE_URL, or holds the string literal *)
(* 'BASE_URL', which is a syntax error before Python 3.12 and the constant *)
(* text BASE_URL from 3.12 on.                                             *)
(***************************************************************************)
BaseUrlValue == "http://localhost:8000"

BaseUrlLine == "BASE_URL = \"" \o BaseUrlValue \o "\""

PrintLine == "print(resp.status_code, resp.text)"

Outcome(m, url, raises) == [func |-> m, url |-> url, raises |-> raises]

RequestOutcomes(line) ==
    UNION { (IF line = "resp = requests." \o m \o "(f'{BASE_URL}" \o path \o "')"
             THEN {Outcome(m, BaseUrlValue \o path, "")}
             ELSE {})
            \cup
            (IF line = "resp = requests." \o m \o "(f'{'BASE_URL'}" \o path \o "')"
             THEN {Outcome(m, "BASE_URL" \o path, ""), Outcome(m, "", "SyntaxError")}
             ELSE {})
          : m \in MethodNames, path \in PathNames }

IsRequestRelated(line) ==
    line = BaseUrlLine \/ line = PrintLine \/ RequestOutcomes(line) # {}

RequestLines == SelectSeq(client_code, IsRequestRelated)

ClientLinesInOrder ==
    /\ Len(RequestLines) = 2 * Len(endpoints) + 1
    /\ RequestLines[1] = BaseUrlLine
    /\ \A k \in 1..Len(endpoints) :
         /\ \A o \in RequestOutcomes(RequestLines[2 * k]) :
              o.func = Str(lower(endpoints[k].method))
         /\ RequestOutcomes(RequestLines[2 * k]) # {}
         /\ RequestLines[2 * k + 1] = PrintLine

\* C6: the client text is the base-URL declaration followed by two lines per
\* endpoint, in input order: a call of the request function named by the
\* lowercase method on base_url + path, then the print of status and body;
\* 2 * len(endpoints) + 1 request lines in all.
C6_ClientCallsBaseUrlPlusPath ==
    generated =>
        /\ ClientLinesInOrder
        /\ \A k \in 1..Len(endpoints) :
             RequestOutcomes(RequestLines[2 * k])
               = {Outcome(Str(lower(endpoints[k].method)),
                          BaseUrlValue \o endpoints[k].path, "")}

\* C6, what the code does: number, order and method of the lines are as
\* claimed, and every call is made on the text BASE_URL + path or fails to
\* compile, never on base_url + path.
C6_ClientCallsLiteralText ==
    generated =>
        /\ ClientLinesInOrder
        /\ \A k \in 1..Len(endpoints) :
             RequestOutcomes(RequestLines[2 * k])
               = {Outcome(Str(lower(endpoints[k].method)), "BASE_URL" \o endpoints[k].path, ""),
                  Outcome(Str(lower(endpoints[k].method)), "", "SyntaxError")}

(***************************************************************************)
(* The archive, read back with namelist() and read().                      *)
(***************************************************************************)
\* the inverse of deflate
inflate(stored) == stored.raw

\* bytes.decode("utf-8")
RECURSIVE utf8_decode(_)
utf8_decode(bs) ==
    IF bs = <<>> THEN <<>>
    ELSE LET b == Head(bs)
         IN  IF b.kind = "ascii" THEN <<b>> \o utf8_decode(Tail(bs))
             ELSE IF b.value < 128
                  THEN <<CodePoint(b.value)>> \o utf8_decode(Tail(bs))
             ELSE IF b.value < 224
                  THEN <<CodePoint((b.value - 192) * 64 + (bs[2].value - 128))>>
                       \o utf8_decode(SubSeq(bs, 3, Len(bs)))
             ELSE <<CodePoint((b.value - 224) * 4096 + (bs[2].value - 128) * 64
                              + (bs[3].value - 128))>>
                  \o utf8_decode(SubSeq(bs, 4, Len(bs)))

\* ZipFile.namelist() and ZipFile.read(name) on the archive: a name read
\* back is resolved to the last entry written under it
namelist(zip) == [i \in 1..Len(zip) |-> zip[i].filename]

zip_read(zip, name) ==
    LET last == CHOOSE i \in 1..Len(zip) :
                    zip[i].filename = name /\ \A j \in (i + 1)..Len(zip) : zip[j].filename # name
    IN  inflate(zip[last].data)

HasNul(name) == \E i \in 1..Len(name) : IsNul(name[i])

RoundTrip ==
    /\ Len(zipbuf) = Len(files)
    /\ \A i \in 1..Len(files) :
         /\ namelist(zipbuf)[i] = files[i].key
         /\ utf8_decode(zip_read(zipbuf, files[i].key)) = files[i].value

BundleNames ==
    <<Text("openapi.yaml"), Text("backend/main.py"), Text("client_demo.py"), Text("README.md")>>

BundleOfOutputs ==
    /\ Len(files) = 4
    /\ \A i \in 1..4 : files[i].key = BundleNames[i]
    /\ files[1].value = Text(openapi_yaml)
    /\ files[2].value = Text(fastapi_code)
    /\ files[3].value = Text(client_code)
    /\ namelist(zipbuf) = BundleNames

ReadmeText == files[4].value[1].text

\* C8, as claimed: the bundle handed to make_zip is always the four entries
\* openapi.yaml, backend/main.py, client_demo.py and README.md, holding the
\* three generated texts and a README of two lines, "# <api_name>" and the
\* description.
C8_BundleWithTwoLineReadme ==
    generated =>
        /\ BundleOfOutputs
        /\ ReadmeText \in { <<"# " \o api_name, desc>>, <<"# " \o api_name, desc, "">> }

\* C8, amended: the same four entries, the README being "# <api_name>", an
\* empty line, the description and a final newline.
C8_BundleWithReadme ==
    generated =>
        /\ BundleOfOutputs
        /\ Len(files[4].value) = 1
        /\ ReadmeText = <<"# " \o api_name, "", desc, "">>

C8_Witness ==
    /\ generated
    /\ zipped
    /\ Len(endpoints) >= 2
    /\ Len(files) = 4
    /\ Len(zipbuf) = 4
    /\ ReadmeText[1] = "# Custom API"

(***************************************************************************)
(* Repeated calls.                                                         *)
(***************************************************************************)
TimestampLines == {health_return(isoformat(t)) : t \in 0..MaxClock}

SameButTimestamp(a, b) ==
    /\ Len(a) = Len(b)
    /\ \A i \in 1..Len(a) :
         a[i] # b[i] => /\ a[i] \in TimestampLines
                        /\ b[i] \in TimestampLines
                        /\ a[i - 1] = DefLine("health")

\* C9: a call of a generator or of the scorer on the inputs of an earlier
\* call returns what the earlier call returned, but for the timestamp of
\* the server text's health handler, which is the instant of the call and
\* occurs once in the text.
C9_SameInputsSameOutputs ==
    [][ /\ (generated /\ generated') =>
            /\ openapi_yaml' = openapi_yaml
            /\ client_code' = client_code
            /\ SameButTimestamp(fastapi_code, fastapi_code')
        /\ generated' =>
            Cardinality({i \in 1..Len(fastapi_code') : fastapi_code'[i] \in TimestampLines}) = 1
        /\ (generated' /\ fastapi_code' # fastapi_code) =>
            \E i \in 1..Len(fastapi_code') : fastapi_code'[i] = health_return(isoformat(now))
        /\ (scored /\ scored') => quality_score' = quality_score
      ]_vars

C9_Witness ==
    /\ generated
    /\ scored
    /\ now > 0
    /\ Len(endpoints) >= 2
    /\ \E i \in 1..Len(fastapi_code) : fastapi_code[i] = health_return(isoformat(now))

====
